---- MODULE Spec2Model ----
(***************************************************************************)
(* A model of abstract_tfidf_vectorization.ipynb: the text normalizer      *)
(* (tokenize_and_lowercase, all_preprocess), the CountVectorizer /         *)
(* TfidfTransformer fit, the selection of complete articles, the cosine    *)
(* similarity matrix, the spectral embedding, the k-means steps and the    *)
(* two saved artifacts.                                                    *)
(*                                                                         *)
(* Strings are sequences of one-character strings, so that str.lower,      *)
(* str.isupper, len and the substring test (word in punctuation) are       *)
(* computed character by character as Python computes them.                *)
(*                                                                         *)
(* Four specifications share the module.  SpecNormalize draws a document   *)
(* and applies the two normalizer functions to it.  Spec runs the cells of *)
(* the notebook, in order, over a small corpus.  SpecConfigured runs the   *)
(* cells up to the elbow sweep with other literals in place of the         *)
(* notebook's parameters.  SpecRerun runs the notebook a second time on    *)
(* the same data.                                                          *)
(***************************************************************************)
EXTENDS Integers, Sequences, FiniteSets, TLC

VARIABLES
    \* ---- normalizer (SpecNormalize) ----
    npc,            \* "input" | "tokenized" | "preprocessed" | "off"
    doc_str,        \* the argument of the normalizer functions
    tok_out,        \* the list returned by tokenize_and_lowercase(doc_str)
    tok_src,        \* history: for each element of tok_out, where it came from
    pre_out,        \* the list returned by all_preprocess(doc_str)
    \* ---- notebook cells (Spec) ----
    pc,             \* the next cell to run, "done", "error" or "off"
    data,           \* the DataFrame data: index value -> record
    vocabulary_,    \* count_vectorizer.vocabulary_: term -> column
    term_counts,    \* term_counts: index value -> (column -> count)
    idf_,           \* tf_idf_vectorizer.idf_ (tenths): column -> idf
    doc_models,     \* doc_models, by index value: L2-normalised tf-idf rows
    interesting_articles, \* interesting_articles.index, in row order
    doc_matrix,     \* doc_matrix: row -> tf-idf row
    cosine_sims,    \* cosine_sims: row -> row -> similarity
    affinity_matrix_, \* the graph SpectralEmbedding decomposes
    spectral_embedding, \* spectral_embedding: one entry per row
    cluster_results, \* the k's of the elbow sweep, in order
    labels,         \* the array returned by fit_predict: row -> label
    similarities_dict, \* index value -> list of <<index value, similarity>>
    metadata_plus_analysis, \* the saved table: index value -> record + label
    \* ---- the run ----
    params,         \* the literals the cells pass to sklearn and pandas
    run,            \* 1 in the first run of the notebook, 2 in the second
    first_run       \* history: what the first run computed, once it is over

normVars == <<npc, doc_str, tok_out, tok_src, pre_out>>
cellVars == <<pc, data, vocabulary_, term_counts, idf_, doc_models,
              interesting_articles, doc_matrix, cosine_sims, affinity_matrix_,
              spectral_embedding, cluster_results, labels, similarities_dict,
              metadata_plus_analysis>>
runVars == <<params, run, first_run>>
vars == <<normVars, cellVars, runVars>>

(***************************************************************************)
(* Characters and Python's str methods.                                    *)
(***************************************************************************)
ascii_uppercase ==
    <<"A","B","C","D","E","F","G","H","I","J","K","L","M",
      "N","O","P","Q","R","S","T","U","V","W","X","Y","Z">>
ascii_lowercase ==
    <<"a","b","c","d","e","f","g","h","i","j","k","l","m",
      "n","o","p","q","r","s","t","u","v","w","x","y","z">>

\* string.punctuation, its 32 characters in their order; the double quote, the
\* backslash and the backtick are written dquote, backslash and backtick
punctuation ==
    <<"!","dquote","#","$","%","&","'","(",")","*","+",",","-",".","/",":",";",
      "<","=",">","?","@","[","backslash","]","^","_","backtick","{","|","}","~">>

Range(s) == {s[k] : k \in 1..Len(s)}

uppercase_set == Range(ascii_uppercase)
lowercase_set == Range(ascii_lowercase)
punctuation_set == Range(punctuation)

IsUpperChar(c) == c \in uppercase_set
IsLowerChar(c) == c \in lowercase_set

\* str.lower() of one character
LowerChar(c) ==
    IF IsUpperChar(c)
    THEN ascii_lowercase[CHOOSE k \in 1..Len(ascii_uppercase) : ascii_uppercase[k] = c]
    ELSE c

\* str.lower()
lower(word) == [k \in 1..Len(word) |-> LowerChar(word[k])]

\* str.isupper(): at least one cased character and no lower-case one
isupper(word) ==
    /\ \E k \in 1..Len(word) : IsUpperChar(word[k])
    /\ \A k \in 1..Len(word) : ~IsLowerChar(word[k])

\* a in b for two Python strings: a is a contiguous substring of b
StrIn(a, b) ==
    \E off \in 0..(Len(b) - Len(a)) :
        \A k \in 1..Len(a) : b[off + k] = a[k]

\* a token all of whose characters are punctuation characters
PunctOnly(word) ==
    /\ Len(word) > 0
    /\ \A k \in 1..Len(word) : word[k] \in punctuation_set

(***************************************************************************)
(* The words the bounded documents are made of, as word_tokenize returns   *)
(* them, and the stopword list.                                            *)
(***************************************************************************)
W_BRCA1 == <<"B","R","C","A","1">>
W_This  == <<"T","h","i","s">>
W_is    == <<"i","s">>
W_A     == <<"A">>
W_wills == <<"w","i","l","l","s">>
W_tests == <<"t","e","s","t","s">>
W_comma == <<",">>
W_dash2 == <<"-","-">>

Words == {W_BRCA1, W_This, W_is, W_A, W_wills, W_tests, W_comma, W_dash2}

\* all_stopwords: entries of the English list of nltk that the words above reach
all_stopwords == { <<"t","h","i","s">>, <<"i","s">>, <<"a">>, <<"w","i","l","l">> }

\* longest document of SpecNormalize, in word tokens
MaxWords == 3

(***************************************************************************)
(* A document is its word tokens in order plus the places where            *)
(* sent_tokenize ends a sentence (after word p, for p in breaks).          *)
(***************************************************************************)
SeqsUpTo(S, n) == UNION {[1..m -> S] : m \in 0..n}

Documents(S, n) ==
    UNION { {[words |-> ws, breaks |-> bs] : bs \in SUBSET (1..(Len(ws) - 1))} :
            ws \in SeqsUpTo(S, n) }

SortedSeq(S) ==
    CHOOSE s \in [1..Cardinality(S) -> S] :
        \A a, b \in 1..Cardinality(S) : a < b => s[a] < s[b]

\* nltk sent_tokenize: the document's sentences, in order
sent_tokenize(doc) ==
    IF Len(doc.words) = 0 THEN <<>>
    ELSE LET bl == SortedSeq(doc.breaks)
             m  == Len(bl) + 1
         IN  [j \in 1..m |->
                SubSeq(doc.words,
                       IF j = 1 THEN 1 ELSE bl[j - 1] + 1,
                       IF j = m THEN Len(doc.words) ELSE bl[j])]

\* nltk word_tokenize: the word tokens of one sentence, left to right
word_tokenize(sent) == [k \in 1..Len(sent) |-> sent[k]]

(***************************************************************************)
(* tokenize_and_lowercase (cell 4).                                        *)
(***************************************************************************)
\* the conditional expression of the comprehension; i is Python's enumerate
\* index (0 for the first token word_tokenize returns)
CaseFoldDropLen(word, i) ==
    IF isupper(word) \/ i > 0 THEN word ELSE lower(word)

CaseFoldFirstOnly(word, i) ==
    IF (isupper(word) \/ i > 0) /\ Len(word) > 1
    THEN word
    ELSE IF i = 0 THEN lower(word) ELSE word

CaseFold(word, i) ==
    IF (isupper(word) \/ i > 0) /\ Len(word) > 1 THEN word ELSE lower(word)

\* the filter of the comprehension: word not in punctuation
KeepWord(word) == ~StrIn(word, punctuation)

\* the entries one sentence contributes: the emitted token with its origin
SentenceEntriesIndexKept(sent, s) ==
    LET toks == word_tokenize(sent)
        F[k \in 0..Len(toks)] ==
            IF k = 0 THEN <<>>
            ELSE IF KeepWord(toks[k])
                 THEN Append(F[k - 1],
                             [out |-> CaseFold(toks[k], Len(F[k - 1])),
                              word |-> toks[k], i |-> Len(F[k - 1]), sent |-> s])
                 ELSE F[k - 1]
    IN  F[Len(toks)]

SentenceEntries(sent, s) ==
    LET toks == word_tokenize(sent)
        F[k \in 0..Len(toks)] ==
            IF k = 0 THEN <<>>
            ELSE IF KeepWord(toks[k])
                 THEN Append(F[k - 1],
                             [out |-> CaseFold(toks[k], k - 1),
                              word |-> toks[k], i |-> k - 1, sent |-> s])
                 ELSE F[k - 1]
    IN  F[Len(toks)]

TokenEntries(doc) ==
    LET sents == sent_tokenize(doc)
        G[s \in 0..Len(sents)] ==
            IF s = 0 THEN <<>> ELSE G[s - 1] \o SentenceEntries(sents[s], s)
    IN  G[Len(sents)]

tokenize_and_lowercase(doc) ==
    LET es == TokenEntries(doc) IN [k \in 1..Len(es) |-> es[k].out]

(***************************************************************************)
(* SnowballStemmer('english').stem, as far as the bounded words exercise   *)
(* it: the word is lower-cased, a word of at most two characters is        *)
(* returned as it is, and step 1a deletes a final "s" (not "us", not "ss") *)
(* when the part before it holds a vowel that is not its last character.   *)
(* The later steps leave every word of Words and of the scenario           *)
(* ("cat", "dog", "fish") unchanged.                                       *)
(***************************************************************************)
IsVowel(c) == c \in {"a", "e", "i", "o", "u", "y"}

Step1a(w) ==
    LET n == Len(w) IN
    IF n >= 2 /\ w[n] = "s" /\ w[n - 1] \notin {"s", "u"}
       /\ \E k \in 1..(n - 2) : IsVowel(w[k])
    THEN SubSeq(w, 1, n - 1)
    ELSE w

stem(word) ==
    LET w == lower(word) IN IF Len(w) <= 2 THEN w ELSE Step1a(w)

(***************************************************************************)
(* all_preprocess (cell 4).                                                *)
(***************************************************************************)
NotStopword(word) == word \notin all_stopwords

all_preprocess_unique(doc) ==
    LET toks == SelectSeq(tokenize_and_lowercase(doc), NotStopword)
        F[k \in 0..Len(toks)] ==
            IF k = 0 THEN <<>>
            ELSE IF \E j \in 1..Len(F[k - 1]) : F[k - 1][j] = stem(toks[k])
                 THEN F[k - 1]
                 ELSE Append(F[k - 1], stem(toks[k]))
    IN  F[Len(toks)]

all_preprocess(doc) ==
    LET toks == SelectSeq(tokenize_and_lowercase(doc), NotStopword)
    IN  [k \in 1..Len(toks) |-> stem(toks[k])]

(***************************************************************************)
(* The corpus of Spec: the DataFrame data after cell 2.  A record holds    *)
(* its abstract (a document over Words), its has_full_text flag and, in    *)
(* isnull, the columns whose value is NaN.  abstract is never NaN: cell 2  *)
(* keeps only the rows whose abstract has more than 50 words.              *)
(***************************************************************************)

Doc(ws) == [words |-> ws, breaks |-> {}]

Abs_A == Doc(<<W_BRCA1, W_tests, W_tests>>)
Abs_B == Doc(<<W_tests, W_BRCA1>>)
Abs_C == Doc(<<W_wills, W_wills>>)
Abs_D == Doc(<<W_tests, W_wills, W_This>>)

Rec(abs, full, nulls) ==
    [abstract |-> abs, has_full_text |-> full, isnull |-> nulls]

Records ==
    { Rec(Abs_A, TRUE, {}),  Rec(Abs_B, TRUE, {}), Rec(Abs_C, TRUE, {}),
      Rec(Abs_D, FALSE, {}), Rec(Abs_B, TRUE, {"title"}) }

\* the documents of the end-to-end scenario: "cat dog cat", "cat dog" and
\* "fish fish fish", each a complete record
W_cat  == <<"c","a","t">>
W_dog  == <<"d","o","g">>
W_fish == <<"f","i","s","h">>

Abs_cat_dog_cat    == Doc(<<W_cat, W_dog, W_cat>>)
Abs_cat_dog        == Doc(<<W_cat, W_dog>>)
Abs_fish_fish_fish == Doc(<<W_fish, W_fish, W_fish>>)

ScenarioRecords ==
    { Rec(Abs_cat_dog_cat, TRUE, {}), Rec(Abs_cat_dog, TRUE, {}),
      Rec(Abs_fish_fish_fish, TRUE, {}) }

\* largest corpus of Spec
MaxDocs == 4

\* CountVectorizer(min_df = 3)
min_df == 3

\* KMeans(10, ...) of cell 9, scaled to the bounded corpus
n_clusters == 2

\* range(1, 20) of the elbow sweep, scaled: the sweep runs k = 1 .. SweepStop - 1
SweepStop == 3

\* nlargest(100) of cell 11, scaled
top_n == 2

\* SpectralEmbedding(n_neighbors = 100), scaled
n_neighbors == 1

\* SpectralEmbedding(n_components = 10), scaled
n_components == 1

\* the literals of the notebook's cells
NotebookParams ==
    [min_df |-> min_df, n_components |-> n_components, n_neighbors |-> n_neighbors,
     sweep_start |-> 1, sweep_stop |-> SweepStop, n_clusters |-> n_clusters,
     top_n |-> top_n]

\* other literals in their place: min_df of -1, 1 or the notebook's, a sweep
\* that starts at k = 0 or k = 1, n_components at or above n_neighbors
ParamChoices ==
    { [NotebookParams EXCEPT !.min_df = m, !.sweep_start = k, !.n_components = c] :
        m \in {-1, 1, min_df}, k \in {0, 1}, c \in {n_neighbors, n_neighbors + 1} }

(***************************************************************************)
(* Python's string order (by code point) on the printable ASCII letters.   *)
(***************************************************************************)
digits == <<"0","1","2","3","4","5","6","7","8","9">>

ascii_order ==
    SubSeq(punctuation, 1, 15) \o digits \o SubSeq(punctuation, 16, 22) \o
    ascii_uppercase \o SubSeq(punctuation, 23, 28) \o ascii_lowercase \o
    SubSeq(punctuation, 29, 32)

Ord(c) == CHOOSE k \in 1..Len(ascii_order) : ascii_order[k] = c

\* a < b for two Python strings
StrLess(a, b) ==
    \/ \E k \in 1..Len(a) :
         /\ k <= Len(b)
         /\ \A m \in 1..(k - 1) : a[m] = b[m]
         /\ Ord(a[k]) < Ord(b[k])
    \/ /\ Len(a) < Len(b)
       /\ \A m \in 1..Len(a) : a[m] = b[m]

(***************************************************************************)
(* count_vectorizer.fit_transform (cell 4).  The analyzer lower-cases the  *)
(* document (lowercase = True is CountVectorizer's default and the         *)
(* preprocessor is None) and hands it to the tokenizer, all_preprocess.    *)
(***************************************************************************)
LowerDoc(doc) == [doc EXCEPT !.words = [k \in 1..Len(doc.words) |-> lower(doc.words[k])]]

analyze(doc) == all_preprocess(LowerDoc(doc))

\* the analyzer's result for each abstract of Records
Analyzed == [a \in {r.abstract : r \in Records \cup ScenarioRecords} |-> analyze(a)]

Count(term, toks) == Cardinality({k \in 1..Len(toks) : toks[k] = term})

\* document frequency of a term over the corpus
DocFreqComplete(term, corpus) ==
    Cardinality({d \in DOMAIN corpus :
                    /\ corpus[d].has_full_text /\ corpus[d].isnull = {}
                    /\ term \in Range(Analyzed[corpus[d].abstract])})

DocFreq(term, corpus) ==
    Cardinality({d \in DOMAIN corpus : term \in Range(Analyzed[corpus[d].abstract])})

\* _limit_features: the terms whose document frequency is within [low, high]
LimitFeaturesStrict(terms, corpus, low, high) ==
    {t \in terms : DocFreq(t, corpus) > low /\ DocFreq(t, corpus) <= high}

LimitFeatures(terms, corpus, low, high) ==
    {t \in terms : DocFreq(t, corpus) >= low /\ DocFreq(t, corpus) <= high}

\* the columns of the kept terms: their rank in sorted order, from 0
SortedColumns(kept) ==
    [t \in kept |-> Cardinality({u \in kept : StrLess(u, t)})]

\* the terms of the corpus: the vocabulary before pruning
CorpusTerms(corpus) ==
    UNION {Range(Analyzed[corpus[d].abstract]) : d \in DOMAIN corpus}

\* the term-count matrix over the columns of vocab
CountMatrix(corpus, vocab) ==
    [d \in DOMAIN corpus |->
        [c \in 0..(Cardinality(DOMAIN vocab) - 1) |->
            Count(CHOOSE t \in DOMAIN vocab : vocab[t] = c,
                  Analyzed[corpus[d].abstract])]]

\* CountVectorizer raises ValueError on a negative min_df; fit_transform raises
\* it on an empty vocabulary, on max_df (all the documents) below min_df, and
\* when no term is left after pruning
FitRaisesOnlyEmpty(corpus, mindf) == CorpusTerms(corpus) = {}

FitRaises(corpus, mindf) ==
    \/ mindf < 0
    \/ CorpusTerms(corpus) = {}
    \/ Cardinality(DOMAIN corpus) < mindf
    \/ LimitFeatures(CorpusTerms(corpus), corpus, mindf, Cardinality(DOMAIN corpus)) = {}

FitVocabulary(corpus, mindf) ==
    SortedColumns(LimitFeatures(CorpusTerms(corpus), corpus, mindf,
                                Cardinality(DOMAIN corpus)))

(***************************************************************************)
(* tf_idf_vectorizer.fit_transform (cell 4).  idf = ln((1+n)/(1+df)) + 1   *)
(* is kept in tenths, rounded; a row of doc_models is kept exactly, as the *)
(* integer vector vec and the integer den2, and stands for vec/sqrt(den2). *)
(***************************************************************************)
\* 10 * (ln(a / b) + 1), rounded, at [a - 1][b - 1], for 2 <= b <= a <= 9
IdfTable ==
    <<
       <<10, 0, 0, 0, 0, 0, 0, 0>>,
       <<14, 10, 0, 0, 0, 0, 0, 0>>,
       <<17, 13, 10, 0, 0, 0, 0, 0>>,
       <<19, 15, 12, 10, 0, 0, 0, 0>>,
       <<21, 17, 14, 12, 10, 0, 0, 0>>,
       <<23, 18, 16, 13, 12, 10, 0, 0>>,
       <<24, 20, 17, 15, 13, 11, 10, 0>>,
       <<25, 21, 18, 16, 14, 13, 11, 10>>
    >>

SmoothIdf(n_doc, df) == IdfTable[n_doc][df]

RECURSIVE SumOver(_, _)
SumOver(f, S) ==
    IF S = {} THEN 0
    ELSE LET x == CHOOSE y \in S : TRUE IN f[x] + SumOver(f, S \ {x})

ColumnDf(counts, c) == Cardinality({d \in DOMAIN counts : counts[d][c] > 0})

IdfVector(counts, cols) ==
    [c \in cols |-> SmoothIdf(Cardinality(DOMAIN counts), ColumnDf(counts, c))]

\* normalize(norm = 'l2'): a zero row is left as it is (its norm counts as 1)
L2NormalizeSkip(vec) == [vec |-> vec, den2 |-> 1]

L2Normalize(vec) ==
    LET sq == SumOver([c \in DOMAIN vec |-> vec[c] * vec[c]], DOMAIN vec)
    IN  [vec |-> vec, den2 |-> IF sq = 0 THEN 1 ELSE sq]

TfidfTransform(counts, idf) ==
    [d \in DOMAIN counts |->
        L2Normalize([c \in DOMAIN idf |-> counts[d][c] * idf[c]])]

(***************************************************************************)
(* Cell 5: the complete articles with a full text, in the order of data,   *)
(* joined on the index with the rows of doc_models.                        *)
(***************************************************************************)
\* dropna(subset = [...]) followed by the has_full_text mask
IsInterestingFullTextOnly(rec) == rec.has_full_text

IsInteresting(rec) ==
    /\ rec.isnull \cap {"abstract", "title", "has_full_text", "publish_time", "authors"} = {}
    /\ rec.has_full_text

\* the index of the selection: the kept index values in ascending order
InterestingIndex(corpus) ==
    SortedSeq({d \in DOMAIN corpus : IsInteresting(corpus[d])})

\* interesting_articles.join(doc_models_df, how = 'left'): the row of each
\* selected article is looked up by its index value
JoinByPosition(index, models) == [i \in 1..Len(index) |-> models[i]]

JoinDocModels(index, models) == [i \in 1..Len(index) |-> models[index[i]]]

(***************************************************************************)
(* Cell 6: np.dot(doc_matrix, doc_matrix.transpose()).  An entry is kept   *)
(* exactly, as num and den2, and stands for num/sqrt(den2).                *)
(***************************************************************************)
DotOwnNorm(u, v) ==
    [num  |-> SumOver([c \in DOMAIN u.vec |-> u.vec[c] * v.vec[c]], DOMAIN u.vec),
     den2 |-> u.den2 * u.den2]

Dot(u, v) ==
    [num  |-> SumOver([c \in DOMAIN u.vec |-> u.vec[c] * v.vec[c]], DOMAIN u.vec),
     den2 |-> u.den2 * v.den2]

GramMatrix(m) == [i \in 1..Len(m) |-> [j \in 1..Len(m) |-> Dot(m[i], m[j])]]

\* a/b < c/d for a, c >= 0 and b, d > 0, by continued fractions
RECURSIVE FracLess(_, _, _, _)
FracLess(a, b, c, d) ==
    IF a \div b # c \div d THEN a \div b < c \div d
    ELSE IF c % d = 0 THEN FALSE
    ELSE IF a % b = 0 THEN TRUE
    ELSE FracLess(d, c % d, b, a % b)

\* x < y for two similarities (both are >= 0)
SimLess(x, y) == FracLess(x.num * x.num, x.den2, y.num * y.num, y.den2)

SimIsZero(x) == x.num = 0
SimIsOne(x)  == x.num > 0 /\ x.num * x.num = x.den2

(***************************************************************************)
(* Cell 11: Series.nlargest(n): the n largest entries, largest first, the  *)
(* earlier position first among equal values (keep = 'first').             *)
(***************************************************************************)
\* position p put into a list of earlier positions that is sorted by value,
\* largest first: after every position whose value is not smaller
InsertDesc(sorted, row, p) ==
    LET k == Cardinality({j \in 1..Len(sorted) : ~SimLess(row[sorted[j]], row[p])})
    IN  SubSeq(sorted, 1, k) \o <<p>> \o SubSeq(sorted, k + 1, Len(sorted))

\* the positions of row sorted by value, largest first
SortDesc(row) ==
    LET F[p \in 0..Len(row)] ==
            IF p = 0 THEN <<>> ELSE InsertDesc(F[p - 1], row, p)
    IN  F[Len(row)]

NLargest(row, n) ==
    SubSeq(SortDesc(row), 1, IF n < Len(row) THEN n ELSE Len(row))

\* the dict comprehension: for each row, the nlargest entries in their order
SimilaritiesDict(sims, index, n) ==
    [d \in Range(index) |->
        LET i    == CHOOSE k \in 1..Len(index) : index[k] = d
            best == NLargest(sims[i], n)
        IN  [r \in 1..Len(best) |-> [to_idx |-> index[best[r]],
                                     sim_value |-> sims[i][best[r]]]]]

(***************************************************************************)
(* Cell 12: pd.Series(labels, index = interesting_articles.index) and      *)
(* data.join(labels, how = 'inner').                                       *)
(***************************************************************************)
LabelSeriesByDataOrder(labs, index, corpus) ==
    LET ids == SortedSeq(DOMAIN corpus)
    IN  [d \in {ids[i] : i \in 1..Len(labs)} |->
            labs[CHOOSE i \in 1..Len(labs) : ids[i] = d]]

LabelSeries(labs, index, corpus) ==
    [d \in Range(index) |-> labs[CHOOSE i \in 1..Len(index) : index[i] = d]]

InnerJoin(corpus, series) ==
    [d \in DOMAIN corpus \cap DOMAIN series |->
        [record |-> corpus[d], label |-> series[d]]]

(***************************************************************************)
(* Initial states.                                                         *)
(***************************************************************************)
NormOff ==
    /\ npc = "off" /\ doc_str = Doc(<<>>)
    /\ tok_out = <<>> /\ tok_src = <<>> /\ pre_out = <<>>

CellsEmpty ==
    /\ vocabulary_ = <<>> /\ term_counts = <<>> /\ idf_ = <<>>
    /\ doc_models = <<>> /\ interesting_articles = <<>> /\ doc_matrix = <<>>
    /\ cosine_sims = <<>> /\ affinity_matrix_ = <<>> /\ spectral_embedding = <<>>
    /\ cluster_results = <<>> /\ labels = <<>> /\ similarities_dict = <<>>
    /\ metadata_plus_analysis = <<>>

CellsOff == pc = "off" /\ data = <<>> /\ CellsEmpty

FirstRun == run = 1 /\ first_run = <<>>

InitNormalize ==
    /\ npc = "input"
    /\ doc_str \in Documents(Words, MaxWords)
    /\ tok_out = <<>> /\ tok_src = <<>> /\ pre_out = <<>>
    /\ CellsOff
    /\ params = NotebookParams /\ FirstRun

Init ==
    /\ NormOff
    /\ pc = "vectorize"
    /\ \E n \in 0..MaxDocs : data \in [1..n -> Records]
    /\ CellsEmpty
    /\ params = NotebookParams /\ FirstRun

\* the notebook with other literals, over the scenario's documents
InitConfigured ==
    /\ NormOff
    /\ pc = "vectorize"
    /\ \E n \in 0..MaxDocs : data \in [1..n -> ScenarioRecords]
    /\ CellsEmpty
    /\ params \in ParamChoices /\ FirstRun

(***************************************************************************)
(* SpecNormalize: the two functions of cell 4 applied to doc_str.          *)
(***************************************************************************)
CallTokenize ==
    /\ npc = "input"
    /\ tok_out' = tokenize_and_lowercase(doc_str)
    /\ tok_src' = TokenEntries(doc_str)
    /\ npc' = "tokenized"
    /\ UNCHANGED <<doc_str, pre_out, cellVars, runVars>>

\* all_preprocess calls tokenize_and_lowercase itself
CallAllPreprocess ==
    /\ npc \in {"input", "tokenized"}
    /\ tok_out' = tokenize_and_lowercase(doc_str)
    /\ tok_src' = TokenEntries(doc_str)
    /\ pre_out' = all_preprocess(doc_str)
    /\ npc' = "preprocessed"
    /\ UNCHANGED <<doc_str, cellVars, runVars>>

NextNormalize == CallTokenize \/ CallAllPreprocess

SpecNormalize == InitNormalize /\ [][NextNormalize]_vars

(***************************************************************************)
(* Spec: the cells of the notebook, in order.                              *)
(***************************************************************************)
\* cell 4: count_vectorizer.fit_transform, then tf_idf_vectorizer.fit_transform
Vectorize ==
    /\ pc = "vectorize"
    /\ IF FitRaises(data, params.min_df)
       THEN /\ pc' = "error"
            /\ UNCHANGED <<vocabulary_, term_counts, idf_, doc_models>>
       ELSE /\ vocabulary_' = FitVocabulary(data, params.min_df)
            /\ term_counts' = CountMatrix(data, vocabulary_')
            /\ idf_' = IdfVector(term_counts', 0..(Cardinality(DOMAIN vocabulary_') - 1))
            /\ doc_models' = TfidfTransform(term_counts', idf_')
            /\ pc' = "select"
    /\ UNCHANGED <<data, interesting_articles, doc_matrix, cosine_sims,
                   affinity_matrix_, spectral_embedding, cluster_results, labels,
                   similarities_dict, metadata_plus_analysis, normVars, runVars>>

\* cell 5: sparse.vstack raises ValueError on an empty list of rows
SelectArticles ==
    /\ pc = "select"
    /\ interesting_articles' = InterestingIndex(data)
    /\ IF Len(interesting_articles') = 0
       THEN pc' = "error" /\ UNCHANGED doc_matrix
       ELSE /\ doc_matrix' = JoinDocModels(interesting_articles', doc_models)
            /\ pc' = "cosine"
    /\ UNCHANGED <<data, vocabulary_, term_counts, idf_, doc_models, cosine_sims,
                   affinity_matrix_, spectral_embedding, cluster_results, labels,
                   similarities_dict, metadata_plus_analysis, normVars, runVars>>

\* cell 6
CosineSims ==
    /\ pc = "cosine"
    /\ cosine_sims' = GramMatrix(doc_matrix)
    /\ pc' = "embed"
    /\ UNCHANGED <<data, vocabulary_, term_counts, idf_, doc_models,
                   interesting_articles, doc_matrix,
                   affinity_matrix_, spectral_embedding, cluster_results, labels,
                   similarities_dict, metadata_plus_analysis, normVars, runVars>>

\* cell 7: with affinity = "precomputed" SpectralEmbedding takes the matrix it
\* is given as the affinity matrix; n_neighbors is read only when affinity is
\* "nearest_neighbors".  The eigenvectors are not computed here: an embedding
\* row is stood for by the affinity row it is computed from.
SpectralEmbed ==
    /\ pc = "embed"
    /\ affinity_matrix_' = cosine_sims
    /\ spectral_embedding' = [i \in 1..Len(cosine_sims) |-> affinity_matrix_'[i]]
    /\ pc' = "sweep"
    /\ UNCHANGED <<data, vocabulary_, term_counts, idf_, doc_models,
                   interesting_articles, doc_matrix, cosine_sims,
                   cluster_results, labels,
                   similarities_dict, metadata_plus_analysis, normVars, runVars>>

\* cell 8: KMeans(k).fit raises when k is below 1 and when there are fewer
\* rows than k, and the loop ends there with the k's fitted so far appended;
\* the inertia of a fit is not computed here, only the k's that were fitted
ElbowSweep ==
    /\ pc = "sweep"
    /\ LET ks     == params.sweep_start..(params.sweep_stop - 1)
           fits(k) == 1 <= k /\ k <= Len(spectral_embedding)
           fitted == {k \in ks : \A j \in ks : j <= k => fits(j)}
       IN  /\ cluster_results' = SortedSeq(fitted)
           /\ pc' = IF fitted = ks THEN "kmeans" ELSE "error"
    /\ UNCHANGED <<data, vocabulary_, term_counts, idf_, doc_models,
                   interesting_articles, doc_matrix, cosine_sims,
                   affinity_matrix_, spectral_embedding, labels,
                   similarities_dict, metadata_plus_analysis, normVars, runVars>>

\* cell 9: no random_state is given, so any assignment of the rows to the
\* labels 0 .. n_clusters - 1 can come back
KMeansLabels ==
    /\ pc = "kmeans"
    /\ IF Len(spectral_embedding) < params.n_clusters
       THEN pc' = "error" /\ UNCHANGED labels
       ELSE /\ labels' \in [1..Len(spectral_embedding) -> 0..(params.n_clusters - 1)]
            /\ pc' = "save_sims"
    /\ UNCHANGED <<data, vocabulary_, term_counts, idf_, doc_models,
                   interesting_articles, doc_matrix, cosine_sims,
                   affinity_matrix_, spectral_embedding, cluster_results,
                   similarities_dict, metadata_plus_analysis, normVars, runVars>>

\* cell 11
SaveSimilarities ==
    /\ pc = "save_sims"
    /\ similarities_dict' = SimilaritiesDict(cosine_sims, interesting_articles, params.top_n)
    /\ pc' = "save_labels"
    /\ UNCHANGED <<data, vocabulary_, term_counts, idf_, doc_models,
                   interesting_articles, doc_matrix, cosine_sims,
                   affinity_matrix_, spectral_embedding, cluster_results, labels,
                   metadata_plus_analysis, normVars, runVars>>

\* cell 12
SaveLabels ==
    /\ pc = "save_labels"
    /\ metadata_plus_analysis' =
          InnerJoin(data, LabelSeries(labels, interesting_articles, data))
    /\ pc' = "done"
    /\ UNCHANGED <<data, vocabulary_, term_counts, idf_, doc_models,
                   interesting_articles, doc_matrix, cosine_sims,
                   affinity_matrix_, spectral_embedding, cluster_results, labels,
                   similarities_dict, normVars, runVars>>

Next ==
    \/ Vectorize \/ SelectArticles \/ CosineSims \/ SpectralEmbed
    \/ ElbowSweep \/ KMeansLabels \/ SaveSimilarities \/ SaveLabels

Spec == Init /\ [][Next]_vars

(***************************************************************************)
(* SpecConfigured: cells 4 to 8 with other literals.                       *)
(***************************************************************************)
NextConfigured ==
    \/ Vectorize \/ SelectArticles \/ CosineSims \/ SpectralEmbed \/ ElbowSweep

SpecConfigured == InitConfigured /\ [][NextConfigured]_vars

(***************************************************************************)
(* SpecRerun: the notebook is run again, in a fresh kernel, on the same    *)
(* data; what the first run computed is kept in first_run.                 *)
(***************************************************************************)
RunAgain ==
    /\ pc = "done" /\ run = 1
    /\ first_run' = [vocabulary_ |-> vocabulary_, doc_models |-> doc_models,
                     labels |-> LabelSeries(labels, interesting_articles, data)]
    /\ run' = 2
    /\ pc' = "vectorize"
    /\ vocabulary_' = <<>> /\ term_counts' = <<>> /\ idf_' = <<>>
    /\ doc_models' = <<>> /\ interesting_articles' = <<>> /\ doc_matrix' = <<>>
    /\ cosine_sims' = <<>> /\ affinity_matrix_' = <<>> /\ spectral_embedding' = <<>>
    /\ cluster_results' = <<>> /\ labels' = <<>> /\ similarities_dict' = <<>>
    /\ metadata_plus_analysis' = <<>>
    /\ UNCHANGED <<data, params, normVars>>

NextRerun == Next \/ RunAgain

SpecRerun == Init /\ [][NextRerun]_vars

(***************************************************************************)
(* Properties of the normalizer, checked under SpecNormalize.              *)
(***************************************************************************)
\* tok_src names, for each emitted token, a token of the document
SourcesAreTokens ==
    /\ Len(tok_src) = Len(tok_out)
    /\ \A k \in 1..Len(tok_src) :
         LET e == tok_src[k] IN
         /\ e.sent \in 1..Len(sent_tokenize(doc_str))
         /\ e.i + 1 \in 1..Len(sent_tokenize(doc_str)[e.sent])
         /\ e.word = sent_tokenize(doc_str)[e.sent][e.i + 1]

C3_NoStopwordInOutput ==
    npc = "preprocessed" =>
        \A k \in 1..Len(pre_out) : pre_out[k] \notin all_stopwords

\* C4: no token made only of punctuation characters, of any length, is in the
\* list tokenize_and_lowercase returns, nor in the list all_preprocess returns.
C4_PunctuationDropped ==
    /\ npc # "input" => \A k \in 1..Len(tok_out) : ~PunctOnly(tok_out[k])
    /\ npc = "preprocessed" => \A k \in 1..Len(pre_out) : ~PunctOnly(pre_out[k])

\* the word tokens of doc_str, by their place p in the document
TokenAt(p) == doc_str.words[p]

\* the index of token p among all the word tokens of its sentence, from 0
SentencePosition(p) ==
    LET before == {b \in doc_str.breaks : b < p}
        start  == IF before = {} THEN 0
                  ELSE CHOOSE b \in before : \A c \in before : c <= b
    IN  p - 1 - start

FoldedAt(p) == CaseFold(TokenAt(p), SentencePosition(p))

\* C18: the list all_preprocess returns holds, in the order of the document,
\* one element for every token that is neither dropped as punctuation nor a
\* stopword once case-folded: the stem of that token, case-folded; repeated
\* tokens stay repeated, and every other token of the document is a
\* punctuation token or a stopword.
C18_OrderPreserved ==
    npc = "preprocessed" =>
        LET n == Len(doc_str.words)
            survivors == {p \in 1..n : KeepWord(TokenAt(p))
                                        /\ FoldedAt(p) \notin all_stopwords}
        IN  /\ Len(pre_out) = Cardinality(survivors)
            /\ \A p \in survivors :
                 pre_out[Cardinality({q \in survivors : q <= p})] = stem(FoldedAt(p))
            /\ \A p \in (1..n) \ survivors :
                 PunctOnly(TokenAt(p)) \/ FoldedAt(p) \in all_stopwords

\* "tests, tests": the comma is dropped and both stems are kept, in order
C18_Witness ==
    /\ npc = "preprocessed"
    /\ doc_str.words = <<W_tests, W_comma, W_tests>>
    /\ pre_out = << <<"t","e","s","t">>, <<"t","e","s","t">> >>

Vectorized == pc \notin {"off", "vectorize"}
Selected   == pc \in {"cosine", "embed", "sweep", "kmeans", "save_sims", "save_labels", "done"}
HasSims    == pc \in {"embed", "sweep", "kmeans", "save_sims", "save_labels", "done"}
Embedded   == pc \in {"sweep", "kmeans", "save_sims", "save_labels", "done"}
Labelled   == pc \in {"save_sims", "save_labels", "done"}
Compacted  == pc \in {"save_labels", "done"}

\* the number of documents of data whose analysed abstract holds the term
DocumentFrequency(term) ==
    Cardinality({d \in DOMAIN data : \E k \in 1..Len(Analyzed[data[d].abstract]) :
                                        Analyzed[data[d].abstract][k] = term})

\* C5: a term is in the vocabulary if and only if at least min_df documents
\* hold it; a non-zero entry of term_counts is in the column of a vocabulary
\* term that the document holds, so a term of fewer than min_df documents is
\* non-zero in no row.
C5_VocabularyPruning ==
    Vectorized =>
        /\ \A t \in CorpusTerms(data) :
             t \in DOMAIN vocabulary_ <=> DocumentFrequency(t) >= min_df
        /\ \A t \in DOMAIN vocabulary_ : DocumentFrequency(t) >= min_df
        /\ \A d \in DOMAIN term_counts : \A c \in DOMAIN term_counts[d] :
             term_counts[d][c] > 0 =>
                \E t \in DOMAIN vocabulary_ :
                    /\ vocabulary_[t] = c
                    /\ DocumentFrequency(t) >= min_df
                    /\ term_counts[d][c] = Count(t, Analyzed[data[d].abstract])

\* a fitted vocabulary, a pruned term that some document holds, a term that
\* exactly min_df documents hold, and a non-zero count
C5_Witness ==
    /\ pc = "select"
    /\ \E t \in CorpusTerms(data) : t \notin DOMAIN vocabulary_
    /\ \E t \in DOMAIN vocabulary_ : DocumentFrequency(t) = min_df
    /\ \E d \in DOMAIN term_counts : \E c \in DOMAIN term_counts[d] : term_counts[d][c] > 1

Min(a, b) == IF a < b THEN a ELSE b

\* C6: every NeighborList has at most min(top_n, D - 1) entries, and its scores
\* are non-increasing in stored order.
C6_CompactionBound ==
    Compacted =>
        \A d \in DOMAIN similarities_dict :
            LET l == similarities_dict[d] IN
            /\ Len(l) <= Min(top_n, Len(interesting_articles) - 1)
            /\ \A r \in 1..(Len(l) - 1) : ~SimLess(l[r].sim_value, l[r + 1].sim_value)

\* C7: no document is a key of its own NeighborList.
C7_SelfExcluded ==
    Compacted =>
        \A d \in DOMAIN similarities_dict :
            \A r \in 1..Len(similarities_dict[d]) : similarities_dict[d][r].to_idx # d

\* C8: row i of cosine_sims, row i of the embedding and labels[i] belong to the
\* i-th index value of the selection; the saved table holds exactly the
\* selected documents, each with its record and the label of its own row.
C8_RowAlignment ==
    LET idx == interesting_articles IN
    /\ Selected =>
         /\ Range(idx) = {d \in DOMAIN data : IsInteresting(data[d])}
         /\ Len(doc_matrix) = Len(idx)
         /\ \A i \in 1..Len(idx) : doc_matrix[i] = doc_models[idx[i]]
    /\ HasSims =>
         /\ Len(cosine_sims) = Len(idx)
         /\ \A i, j \in 1..Len(idx) :
              cosine_sims[i][j] = Dot(doc_models[idx[i]], doc_models[idx[j]])
    /\ Embedded =>
         /\ Len(spectral_embedding) = Len(idx)
         /\ \A i \in 1..Len(idx) : spectral_embedding[i] = cosine_sims[i]
    /\ Labelled => Len(labels) = Len(idx)
    /\ pc = "done" =>
         /\ DOMAIN metadata_plus_analysis = Range(idx)
         /\ \A i \in 1..Len(idx) :
              /\ metadata_plus_analysis[idx[i]].label = labels[i]
              /\ metadata_plus_analysis[idx[i]].record = data[idx[i]]

\* the table is saved, a document before a selected one is left out (rows and
\* index values differ), and two rows carry different labels
C8_Witness ==
    /\ pc = "done"
    /\ \E i \in 1..Len(interesting_articles) : interesting_articles[i] # i
    /\ \E i, j \in 1..Len(labels) : labels[i] # labels[j]
    /\ \E d \in DOMAIN data : d \notin DOMAIN metadata_plus_analysis

\* j may be one of the n_neighbors most similar other documents of i: fewer
\* than n_neighbors others are strictly more similar to i than j is
MaySelect(sims, i, j) ==
    Cardinality({k \in 1..Len(sims) :
                    k # i /\ k # j /\ SimLess(sims[i][j], sims[i][k])}) < n_neighbors

\* C9: only the similarities between a document and its n_neighbors most
\* similar other documents (as selected by either endpoint) are edges of the
\* graph that is decomposed; no other similarity enters it.
C9_OnlyNearestNeighborEdges ==
    Embedded =>
        \A i, j \in 1..Len(affinity_matrix_) :
            (i # j /\ ~SimIsZero(affinity_matrix_[i][j])) =>
                (MaySelect(cosine_sims, i, j) \/ MaySelect(cosine_sims, j, i))

\* C10: cosine_sims is symmetric, every entry lies in [0, 1], and the diagonal
\* entry of a document with a non-zero tf-idf row is 1.
C10_SimilarityMatrix ==
    HasSims =>
        \A i, j \in 1..Len(cosine_sims) :
            /\ cosine_sims[i][j] = cosine_sims[j][i]
            /\ cosine_sims[i][j].num >= 0
            /\ cosine_sims[i][j].den2 > 0
            /\ cosine_sims[i][j].num * cosine_sims[i][j].num <= cosine_sims[i][j].den2
            /\ (\E c \in DOMAIN doc_matrix[i].vec : doc_matrix[i].vec[c] # 0)
                  => SimIsOne(cosine_sims[i][i])

\* a matrix with a non-zero row, a zero row, and an entry strictly between 0
\* and 1 whose two documents have different norms
C10_Witness ==
    /\ pc = "embed"
    /\ \E i \in 1..Len(cosine_sims) : SimIsOne(cosine_sims[i][i])
    /\ \E i \in 1..Len(cosine_sims) : SimIsZero(cosine_sims[i][i])
    /\ \E i, j \in 1..Len(cosine_sims) :
         /\ ~SimIsZero(cosine_sims[i][j]) /\ ~SimIsOne(cosine_sims[i][j])
         /\ doc_matrix[i].den2 # doc_matrix[j].den2

\* the squared Euclidean length of the integer vector of a tf-idf row
SquaredLength(vec) == SumOver([c \in DOMAIN vec |-> vec[c] * vec[c]], DOMAIN vec)

IsZeroVector(vec) == \A c \in DOMAIN vec : vec[c] = 0

\* C11: every row of doc_models either has Euclidean norm 1 (the squared length
\* of its vector equals the square of its divisor) or is the all-zero vector; a
\* document none of whose terms is in the vocabulary has the zero vector, which
\* is left undivided.
C11_UnitNormOrZero ==
    [](Vectorized =>
        \A d \in DOMAIN doc_models :
            LET v == doc_models[d] IN
            /\ v.den2 > 0
            /\ SquaredLength(v.vec) = v.den2 \/ IsZeroVector(v.vec)
            /\ ~IsZeroVector(v.vec) => SquaredLength(v.vec) = v.den2
            /\ IsZeroVector(v.vec) => v.den2 = 1
            /\ (Range(Analyzed[data[d].abstract]) \cap DOMAIN vocabulary_ = {})
                  <=> IsZeroVector(v.vec))

\* a fitted corpus with a document all of whose terms were pruned and a
\* document whose row had to be divided by a norm other than 1
C11_Witness ==
    /\ pc = "select"
    /\ \E d \in DOMAIN doc_models :
         /\ Analyzed[data[d].abstract] # <<>>
         /\ IsZeroVector(doc_models[d].vec)
    /\ \E d \in DOMAIN doc_models :
         /\ ~IsZeroVector(doc_models[d].vec)
         /\ doc_models[d].den2 > 1

(***************************************************************************)
(* Properties of the cells under other literals, checked under             *)
(* SpecConfigured.                                                         *)
(***************************************************************************)
\* the abstract of the document of row i of doc_matrix and cosine_sims
AbstractOfRow(i) == data[interesting_articles[i]].abstract

\* the vocabulary terms the document of row i holds
VocabularyTermsOfRow(i) == Range(Analyzed[AbstractOfRow(i)]) \cap DOMAIN vocabulary_

InvalidParams ==
    \/ params.n_components > params.n_neighbors
    \/ params.min_df < 1
    \/ params.sweep_start < 1
    \/ params.n_clusters < 1

SecondRunOver == run = 2 /\ pc = "done"

\* the second run fitted the vocabulary and the tf-idf rows of the first
RerunSameVectors ==
    SecondRunOver =>
        /\ vocabulary_ = first_run.vocabulary_
        /\ doc_models = first_run.doc_models

\* the second run gave every document the label the first run gave it
RerunSameLabels ==
    SecondRunOver =>
        LabelSeries(labels, interesting_articles, data) = first_run.labels

IsIncomplete(rec) ==
    \/ rec.isnull \cap {"abstract", "title", "authors", "has_full_text"} # {}
    \/ ~rec.has_full_text

\* what holds of the rows and keys of every artifact, in every state
RowsAreSelectedDocuments ==
    LET idx == interesting_articles IN
    /\ pc \in {"vectorize", "select", "cosine"} => cosine_sims = <<>>
    /\ \A i \in 1..Len(idx) : ~IsIncomplete(data[idx[i]])
    /\ cosine_sims # <<>> =>
         /\ idx # <<>>
         /\ Len(cosine_sims) = Len(idx)
         /\ \A i \in 1..Len(cosine_sims) : Len(cosine_sims[i]) = Len(idx)
    /\ spectral_embedding # <<>> => Len(spectral_embedding) = Len(idx)
    /\ labels # <<>> => Len(labels) = Len(idx)
    /\ \A d \in DOMAIN similarities_dict :
         /\ ~IsIncomplete(data[d])
         /\ \E i \in 1..Len(idx) : idx[i] = d
         /\ \A r \in 1..Len(similarities_dict[d]) :
              /\ ~IsIncomplete(data[similarities_dict[d][r].to_idx])
              /\ \E i \in 1..Len(idx) : idx[i] = similarities_dict[d][r].to_idx
    /\ \A d \in DOMAIN metadata_plus_analysis : ~IsIncomplete(data[d])

\* C14: no incomplete record is selected; cosine_sims does not exist before
\* the selection is made and, once it exists, it has one row and one column
\* per selected document, as the embedding and the labels have one entry per
\* selected document; no incomplete record is a key or a neighbour in
\* similarities_dict or a row of the saved table; and the step that computes
\* cosine_sims starts from a selection that is already made and leaves it as
\* it is.
C14_SelectionBeforeSimilarity ==
    /\ []RowsAreSelectedDocuments
    /\ [][cosine_sims' # cosine_sims =>
            /\ pc = "cosine"
            /\ interesting_articles # <<>>
            /\ interesting_articles' = interesting_articles
            /\ \A i \in 1..Len(interesting_articles) :
                 ~IsIncomplete(data[interesting_articles[i]])]_vars

\* a finished run over a corpus with a record without full text, a record
\* without a title and a selected record
C14_Witness ==
    /\ pc = "done"
    /\ \E d \in DOMAIN data : ~data[d].has_full_text
    /\ \E d \in DOMAIN data : data[d].isnull # {}
    /\ \E d \in DOMAIN data : \E e \in DOMAIN metadata_plus_analysis : d < e /\ IsIncomplete(data[d])
    /\ similarities_dict # <<>>

\* the fit as cell 4 leaves it: over every document of data, the incomplete
\* ones included, and before any document is selected; it fails only when
\* no term is held by min_df documents of data
FittedOverWholeCorpus ==
    /\ pc = "select" =>
        /\ interesting_articles = <<>>
        /\ DOMAIN term_counts = DOMAIN data
        /\ DOMAIN doc_models = DOMAIN data
        /\ \A t \in CorpusTerms(data) :
             t \in DOMAIN vocabulary_ <=> DocumentFrequency(t) >= min_df
        /\ \A t, u \in DOMAIN vocabulary_ : t # u => vocabulary_[t] # vocabulary_[u]
        /\ DOMAIN idf_ = {vocabulary_[t] : t \in DOMAIN vocabulary_}
    /\ (pc = "error" /\ doc_models = <<>>) =>
        \A t \in CorpusTerms(data) : DocumentFrequency(t) < min_df

\* the rows handed to the later cells are rows of doc_models, as fitted
RowsAreFittedRows ==
    doc_matrix # <<>> =>
        \A i \in 1..Len(doc_matrix) : doc_matrix[i] = doc_models[interesting_articles[i]]

\* C15: the vocabulary, its columns, the idf values, the term counts and the
\* tf-idf rows are assigned by cell 4 alone, over the whole of data and before
\* the selection of complete articles; no later cell changes any of them, and
\* the rows of doc_matrix are the fitted rows and stay as they are.
C15_VocabularyFrozen ==
    /\ [](FittedOverWholeCorpus /\ RowsAreFittedRows)
    /\ [][pc # "vectorize" =>
            UNCHANGED <<vocabulary_, term_counts, idf_, doc_models>>]_vars
    /\ [][doc_matrix # <<>> => doc_matrix' = doc_matrix]_vars

\* a finished run whose vocabulary holds a term that fewer than min_df of the
\* selected documents hold: it is there through the incomplete documents
C15_Witness ==
    /\ pc = "done"
    /\ \E t \in DOMAIN vocabulary_ :
         Cardinality({i \in 1..Len(interesting_articles) :
                         t \in Range(Analyzed[AbstractOfRow(i)])}) < min_df

\* the corpus is empty or has fewer documents than min_df
TooFewDocuments ==
    Cardinality(DOMAIN data) = 0 \/ min_df > Cardinality(DOMAIN data)

\* C16: when the corpus is empty or has fewer than min_df documents, cell 4
\* ends in an error: no vocabulary, term count, idf or tf-idf row is ever
\* assigned, and no later cell runs.
C16_TooFewDocumentsFail ==
    /\ [](TooFewDocuments => (pc \in {"vectorize", "error"} /\ CellsEmpty))
    /\ [][(TooFewDocuments /\ pc = "vectorize") => (pc' = "error" /\ CellsEmpty')]_vars
    /\ [][pc = "error" => UNCHANGED cellVars]_vars

\* cell 4 has failed on a corpus that is not empty but smaller than min_df
C16_Witness ==
    /\ pc = "error"
    /\ Cardinality(DOMAIN data) > 0
    /\ Cardinality(DOMAIN data) < min_df
    /\ CorpusTerms(data) # {}
    /\ CellsEmpty

====
